---- MODULE Spec2Model ----
(***************************************************************************)
(* Model of the Stripe demo shop: the Express backend (server/server.js)   *)
(* and the React client (client/src/App.js), both found in                 *)
(* src/server/server.js.                                                   *)
(*                                                                         *)
(*   SpecCart   : the Cart State Manager driven through its three          *)
(*                transition functions with arbitrary arguments.           *)
(*   SpecServer : the backend receiving requests from any HTTP client.     *)
(*   SpecApp    : a browser session: the user's clicks, the client's       *)
(*                asynchronous continuations and the backend serving it.   *)
(***************************************************************************)
EXTENDS Integers, Sequences, FiniteSets, TLC

VARIABLES
    cart,          \* App state `cart` (useState([]))
    lastCall,      \* history: the last cart transition invoked and its arguments
    prevCart,      \* history: the cart that transition was applied to
    reqs,          \* backend: the requests received, each with its response
    stripeCalls,   \* the calls made to stripe.checkout.sessions.create
    dispatched,    \* the branches of the webhook switch that were executed
    serverUp,      \* the backend process is running
    products,      \* App state `products` (useState([]))
    fetchProducts, \* the mount effect's request for the catalog
    showCheckout,  \* App state `showCheckout`: FALSE = Browsing, TRUE = Reviewing
    pays,          \* the invocations of handleStripeCheckoutRedirect
    alerts,        \* the alert() dialogs shown
    stripeJs,      \* how stripePromise (loadStripe) has settled
    page,          \* "app", or the session id the browser navigated to
    clicks         \* the number of buttons the user has pressed

cartVars == <<cart, lastCall, prevCart>>

serverVars == <<reqs, stripeCalls, dispatched, serverUp>>

uiVars == <<products, fetchProducts, showCheckout, pays, alerts, stripeJs, page>>

allUiVars == <<uiVars, clicks>>

vars == <<cart, lastCall, prevCart, reqs, stripeCalls, dispatched, serverUp,
          products, fetchProducts, showCheckout, pays, alerts, stripeJs, page,
          clicks>>

(***************************************************************************)
(* Bounds                                                                  *)
(***************************************************************************)
\* largest quantity an item is allowed to reach in the explored state space
MaxQuantity == 3

\* number of requests the backend receives in the explored state space
MaxRequests == 3

\* number of buttons the user presses in the explored state space
MaxClicks == 5

(***************************************************************************)
(* Catalog (GET /api/products)                                             *)
(***************************************************************************)
Catalog ==
    << [id |-> "product_1", name |-> "Premium Coffee Beans", price |-> 1500,
        imageUrl |-> "/images/coffee.jpg"],
       [id |-> "product_2", name |-> "Handcrafted Mug", price |-> 2500,
        imageUrl |-> "/images/mug.jpg"] >>

\* Arguments the cart functions are exercised with: the catalog's products and
\* a product object that carries an id of the catalog with other fields.
StaleProduct ==
    [id |-> "product_1", name |-> "Coffee Beans (old listing)", price |-> 1200,
     imageUrl |-> "/images/coffee-old.jpg"]

ProductArgs == {Catalog[1], Catalog[2], StaleProduct}

ProductIdArgs == {"product_1", "product_2", "product_9"}

QuantityArgs == (0 - MaxQuantity) .. MaxQuantity

NoProduct == [id |-> "", name |-> "", price |-> 0, imageUrl |-> ""]

(***************************************************************************)
(* Cart State Manager: the updater functions handed to setCart             *)
(***************************************************************************)
\* { ...productToAdd, quantity: 1 }
NewItem(productToAdd) ==
    [id |-> productToAdd.id, name |-> productToAdd.name,
     price |-> productToAdd.price, imageUrl |-> productToAdd.imageUrl,
     quantity |-> 1]

\* variant: the presence test compares names instead of ids
addToCart_matchByName(prev, productToAdd) ==
    LET isIt(item) == item.name = productToAdd.name
        bump(item) == IF item.id = productToAdd.id
                      THEN [item EXCEPT !.quantity = item.quantity + 1]
                      ELSE item
    IN  IF \E i \in 1..Len(prev) : isIt(prev[i])
        THEN [i \in 1..Len(prev) |-> bump(prev[i])]
        ELSE Append(prev, NewItem(productToAdd))

\* variant: the incremented item is rebuilt from the argument, not from the item
addToCart_spreadArgument(prev, productToAdd) ==
    LET isIt(item) == item.id = productToAdd.id
        bump(item) == IF item.id = productToAdd.id
                      THEN [NewItem(productToAdd) EXCEPT !.quantity = item.quantity + 1]
                      ELSE item
    IN  IF \E i \in 1..Len(prev) : isIt(prev[i])
        THEN [i \in 1..Len(prev) |-> bump(prev[i])]
        ELSE Append(prev, NewItem(productToAdd))

\* variant: the incremented item is taken out and put back at the end
addToCart_moveToEnd(prev, productToAdd) ==
    LET isIt(item) == item.id = productToAdd.id
        others(item) == item.id # productToAdd.id
        bump(item) == [item EXCEPT !.quantity = item.quantity + 1]
    IN  IF \E i \in 1..Len(prev) : isIt(prev[i])
        THEN Append(SelectSeq(prev, others),
                    bump(prev[CHOOSE i \in 1..Len(prev) : isIt(prev[i])]))
        ELSE Append(prev, NewItem(productToAdd))

addToCart(prev, productToAdd) ==
    LET isIt(item) == item.id = productToAdd.id
        bump(item) == IF item.id = productToAdd.id
                      THEN [item EXCEPT !.quantity = item.quantity + 1]
                      ELSE item
    IN  IF \E i \in 1..Len(prev) : isIt(prev[i])
        THEN [i \in 1..Len(prev) |-> bump(prev[i])]
        ELSE Append(prev, NewItem(productToAdd))

\* variant: the filter predicate is inverted
removeFromCart_inverted(prev, productId) ==
    LET keep(item) == item.id = productId
    IN  SelectSeq(prev, keep)

removeFromCart(prev, productId) ==
    LET keep(item) == item.id # productId
    IN  SelectSeq(prev, keep)

\* variant: the removal test is `newQuantity < 0`
updateCartQuantity_strict(prev, productId, newQuantity) ==
    LET keep(item) == item.id # productId
        setq(item) == IF item.id = productId
                      THEN [item EXCEPT !.quantity = newQuantity]
                      ELSE item
    IN  IF newQuantity < 0
        THEN SelectSeq(prev, keep)
        ELSE [i \in 1..Len(prev) |-> setq(prev[i])]

updateCartQuantity(prev, productId, newQuantity) ==
    LET keep(item) == item.id # productId
        setq(item) == IF item.id = productId
                      THEN [item EXCEPT !.quantity = newQuantity]
                      ELSE item
    IN  IF newQuantity <= 0
        THEN SelectSeq(prev, keep)
        ELSE [i \in 1..Len(prev) |-> setq(prev[i])]

\* variant: the reducer forgets the quantity
totalCents_noQuantity(c) ==
    LET step(total, item) == total + item.price
        acc[i \in 0..Len(c)] == IF i = 0 THEN 0 ELSE step(acc[i - 1], c[i])
    IN  acc[Len(c)]

\* totalCents of getTotalCartPrice
totalCents(c) ==
    LET step(total, item) == total + (item.price * item.quantity)
        acc[i \in 0..Len(c)] == IF i = 0 THEN 0 ELSE step(acc[i - 1], c[i])
    IN  acc[Len(c)]

\* (totalCents / 100).toFixed(2): the decimal string "<dollars>.<cc>"
toFixed2(cents) == [dollars |-> cents \div 100, cc |-> cents % 100]

getTotalCartPrice(c) == toFixed2(totalCents(c))

(***************************************************************************)
(* Cart actions                                                            *)
(***************************************************************************)
QuantityOf(c, id) ==
    IF \E i \in 1..Len(c) : c[i].id = id
    THEN c[CHOOSE i \in 1..Len(c) : c[i].id = id].quantity
    ELSE 0

Add(p) ==
    /\ QuantityOf(cart, p.id) < MaxQuantity
    /\ cart' = addToCart(cart, p)
    /\ prevCart' = cart
    /\ lastCall' = [op |-> "add", product |-> p, id |-> p.id, n |-> 0]
    /\ UNCHANGED <<serverVars, uiVars>>

Remove(id) ==
    /\ cart' = removeFromCart(cart, id)
    /\ prevCart' = cart
    /\ lastCall' = [op |-> "remove", product |-> NoProduct, id |-> id, n |-> 0]
    /\ UNCHANGED <<serverVars, uiVars>>

SetQuantity(id, n) ==
    /\ cart' = updateCartQuantity(cart, id, n)
    /\ prevCart' = cart
    /\ lastCall' = [op |-> "setQuantity", product |-> NoProduct, id |-> id, n |-> n]
    /\ UNCHANGED <<serverVars, uiVars>>

(***************************************************************************)
(* Backend: values on the wire                                             *)
(***************************************************************************)
\* JavaScript values the `items` member of a request body can take
Undefined == [kind |-> "undefined", elems |-> <<>>]

Null == [kind |-> "null", elems |-> <<>>]

Arr(s) == [kind |-> "array", elems |-> s]

\* response bodies
NoBody == [kind |-> "none", error |-> "", id |-> "", products |-> <<>>, text |-> ""]

ErrorJson(message) == [NoBody EXCEPT !.kind = "error", !.error = message]

SessionJson(sessionId) == [NoBody EXCEPT !.kind = "session", !.id = sessionId]

ProductsJson(list) == [NoBody EXCEPT !.kind = "products", !.products = list]

ReceivedJson == [NoBody EXCEPT !.kind = "received"]

WebhookErrorText(message) == [NoBody EXCEPT !.kind = "text", !.text = message]

\* upstream results of stripe.checkout.sessions.create
NoOutcome == [settled |-> FALSE, ok |-> FALSE, id |-> "", message |-> ""]

Resolved(sessionId) == [settled |-> TRUE, ok |-> TRUE, id |-> sessionId, message |-> ""]

Rejected(message) == [settled |-> TRUE, ok |-> FALSE, id |-> "", message |-> message]

SessionIds == {"cs_test_a", "cs_test_b"}

UpstreamErrors == {"Invalid API Key provided", "connection to api.stripe.com failed"}

\* webhook events and the signature header a sender attaches
EventTypes == {"checkout.session.completed", "payment_intent.succeeded", "invoice.paid"}

Event(type) == [id |-> "evt_1", type |-> type, object |-> "obj_1"]

WebhookSecret == "whsec_configured"

OtherSecret == "whsec_other"

\* `stripe-signature`: t=<timestamp>,v1=HMAC(secret, t.payload); `fresh` tells
\* whether t lies within the tolerance window
Signature(secret, payload, fresh) ==
    [present |-> TRUE, secret |-> secret, signed |-> payload, fresh |-> fresh]

NoSignature ==
    [present |-> FALSE, secret |-> "", signed |-> Event(""), fresh |-> FALSE]

NoHook == [contentType |-> "", payload |-> Event(""), sig |-> NoSignature]

\* another payload than e, for a body altered after signing
Altered(e) ==
    IF e.type = "checkout.session.completed"
    THEN Event("invoice.paid") ELSE Event("checkout.session.completed")

\* the headers a sender can attach to the payload e
SignaturesFor(e) ==
    { Signature(WebhookSecret, e, TRUE),
      Signature(OtherSecret, e, TRUE),
      Signature(WebhookSecret, e, FALSE),
      Signature(WebhookSecret, Altered(e), TRUE),
      NoSignature }

WebhookArgs ==
    UNION { { [contentType |-> "application/json", payload |-> Event(t), sig |-> sg] :
                sg \in SignaturesFor(Event(t)) } : t \in EventTypes } \cup
    { [contentType |-> "text/plain", payload |-> Event("checkout.session.completed"),
       sig |-> Signature(WebhookSecret, Event("checkout.session.completed"), TRUE)],
      [contentType |-> "application/json", payload |-> Event("customer.created"),
       sig |-> Signature(WebhookSecret, Event("customer.created"), TRUE)] }

\* items a caller posts to /api/create-checkout-session
CoffeeLine == [id |-> "product_1", name |-> "Premium Coffee Beans", price |-> 1500, quantity |-> 2]

MugLine == [id |-> "product_2", name |-> "Handcrafted Mug", price |-> 2500, quantity |-> 1]

ItemsArgs ==
    { Undefined, Null, Arr(<<>>), Arr(<<CoffeeLine>>),
      Arr(<<CoffeeLine, MugLine>>), Arr(<<MugLine, CoffeeLine>>) }

(***************************************************************************)
(* Backend: middleware order                                               *)
(***************************************************************************)
\* variant: express.json() is registered ahead of the webhook route
AppLayers_jsonFirst == <<"cors", "express.json", "POST /webhook", "GET /api/products",
                         "POST /api/create-checkout-session">>

\* the layers in the order app.use / app.post / app.get register them
AppLayers == <<"cors", "POST /webhook", "express.json", "GET /api/products",
               "POST /api/create-checkout-session">>

LayerIndex(layer) == CHOOSE i \in 1..Len(AppLayers) : AppLayers[i] = layer

\* whether express.json() has run on a request by the time `route` handles it
JsonParsedBefore(route) == LayerIndex("express.json") < LayerIndex(route)

\* what has become of a request's body by the time `route` handles it: parsed
\* by express.json(), captured as received by the route's own express.raw, or
\* left unread
BodySeen(route, contentType) ==
    IF contentType # "application/json" THEN "none"
    ELSE IF JsonParsedBefore(route) THEN "parsed"
    ELSE IF route = "POST /webhook" THEN "raw"
    ELSE "none"

\* req.body as the /webhook handler sees it: the bytes as received (express.raw
\* on a JSON content type with the body not yet consumed), else something that
\* is no string or Buffer
WebhookBody(hook) ==
    IF JsonParsedBefore("POST /webhook") /\ hook.contentType = "application/json"
    THEN [raw |-> FALSE, payload |-> hook.payload]
    ELSE IF hook.contentType = "application/json"
         THEN [raw |-> TRUE, payload |-> hook.payload]
         ELSE [raw |-> FALSE, payload |-> Event("")]

(***************************************************************************)
(* Backend: POST /webhook                                                  *)
(***************************************************************************)
\* stripe.webhooks.constructEvent(payload, header, secret): the decoded event,
\* or a thrown error
constructEvent(body, sig, secret) ==
    IF ~body.raw
    THEN [thrown |-> TRUE, message |-> "Webhook payload must be provided as a string or a Buffer",
          event |-> Event("")]
    ELSE IF ~sig.present
    THEN [thrown |-> TRUE, message |-> "No stripe-signature header value was provided",
          event |-> Event("")]
    ELSE IF sig.secret # secret \/ sig.signed # body.payload
    THEN [thrown |-> TRUE, message |-> "No signatures found matching the expected signature for payload",
          event |-> Event("")]
    ELSE IF ~sig.fresh
    THEN [thrown |-> TRUE, message |-> "Timestamp outside the tolerance zone",
          event |-> Event("")]
    ELSE [thrown |-> FALSE, message |-> "", event |-> body.payload]

\* variant: the body is decoded without verifying the header
verifyWebhook_parseOnly(body, sig) ==
    [thrown |-> FALSE, message |-> "", event |-> body.payload]

\* the try block: constructEvent(req.body, sig, process.env.STRIPE_WEBHOOK_SECRET)
verifyWebhook(body, sig) == constructEvent(body, sig, WebhookSecret)

\* variant: the first case label is misspelt
dispatchBranch_typo(type) ==
    CASE type = "checkout.session.complete" -> "checkout.session.completed"
      [] type = "payment_intent.succeeded" -> "payment_intent.succeeded"
      [] OTHER -> "default"

\* the switch on event.type: the branch that runs
dispatchBranch(type) ==
    CASE type = "checkout.session.completed" -> "checkout.session.completed"
      [] type = "payment_intent.succeeded" -> "payment_intent.succeeded"
      [] OTHER -> "default"

\* variant: the default branch answers 400 for a type it does not know
onDispatched_rejectUnknown(branch) ==
    IF branch = "default"
    THEN [status |-> 400, body |-> WebhookErrorText("Unhandled event type")]
    ELSE [status |-> 200, body |-> ReceivedJson]

\* after the switch: res.status(200).json({ received: true })
onDispatched(branch) == [status |-> 200, body |-> ReceivedJson]

\* `trace` lists what the webhook handler did for the request, in order
NewRequest(route) ==
    [route |-> route, items |-> Undefined, hook |-> NoHook, pc |-> "done",
     status |-> 0, body |-> NoBody, outcome |-> NoOutcome, trace |-> <<>>,
     bodySeen |-> "none"]

\* variant: an event id that was acknowledged before is acknowledged again
\* without running its branch
PostWebhook_dedup(hook) ==
    LET r == Len(reqs) + 1
        v == verifyWebhook(WebhookBody(hook), hook.sig)
        req == [NewRequest("POST /webhook") EXCEPT
                   !.hook = hook,
                   !.bodySeen = BodySeen("POST /webhook", hook.contentType)]
        seen == \E q \in 1..Len(reqs) :
                    /\ reqs[q].route = "POST /webhook"
                    /\ reqs[q].status = 200
                    /\ reqs[q].hook.payload.id = v.event.id
    IN  /\ serverUp
        /\ Len(reqs) < MaxRequests
        /\ IF v.thrown
           THEN /\ reqs' = Append(reqs, [req EXCEPT !.status = 400,
                                             !.body = WebhookErrorText(v.message),
                                             !.trace = <<"verify", "respond">>])
                /\ UNCHANGED dispatched
           ELSE IF seen
           THEN /\ reqs' = Append(reqs, [req EXCEPT !.status = 200,
                                             !.body = ReceivedJson,
                                             !.trace = <<"verify", "respond">>])
                /\ UNCHANGED dispatched
           ELSE LET branch == dispatchBranch(v.event.type)
                    answer == onDispatched(branch)
                IN  /\ dispatched' = Append(dispatched, [req |-> r, branch |-> branch])
                    /\ reqs' = Append(reqs, [req EXCEPT !.status = answer.status,
                                                 !.body = answer.body,
                                                 !.trace = <<"verify", "dispatch", "respond">>])
        /\ UNCHANGED <<stripeCalls, serverUp, cartVars, allUiVars>>

PostWebhook(hook) ==
    LET r == Len(reqs) + 1
        v == verifyWebhook(WebhookBody(hook), hook.sig)
        req == [NewRequest("POST /webhook") EXCEPT
                   !.hook = hook,
                   !.bodySeen = BodySeen("POST /webhook", hook.contentType)]
    IN  /\ serverUp
        /\ Len(reqs) < MaxRequests
        /\ IF v.thrown
           THEN /\ reqs' = Append(reqs, [req EXCEPT !.status = 400,
                                             !.body = WebhookErrorText(v.message),
                                             !.trace = <<"verify", "respond">>])
                /\ UNCHANGED dispatched
           ELSE LET branch == dispatchBranch(v.event.type)
                    answer == onDispatched(branch)
                IN  /\ dispatched' = Append(dispatched, [req |-> r, branch |-> branch])
                    /\ reqs' = Append(reqs, [req EXCEPT !.status = answer.status,
                                                 !.body = answer.body,
                                                 !.trace = <<"verify", "dispatch", "respond">>])
        /\ UNCHANGED <<stripeCalls, serverUp, cartVars, allUiVars>>

(***************************************************************************)
(* Backend: GET /api/products                                              *)
(***************************************************************************)
\* variant: one array shared by all requests, reversed in place before it is sent
GetProducts_sharedArray ==
    LET earlier == Cardinality({q \in 1..Len(reqs) : reqs[q].route = "GET /api/products"})
        list == IF earlier % 2 = 0 THEN Catalog ELSE <<Catalog[2], Catalog[1]>>
    IN  /\ serverUp
        /\ Len(reqs) < MaxRequests
        /\ reqs' = Append(reqs, [NewRequest("GET /api/products") EXCEPT
                                    !.status = 200, !.body = ProductsJson(list)])
        /\ UNCHANGED <<stripeCalls, dispatched, serverUp>>

GetProducts ==
    /\ serverUp
    /\ Len(reqs) < MaxRequests
    /\ reqs' = Append(reqs, [NewRequest("GET /api/products") EXCEPT
                                !.status = 200, !.body = ProductsJson(Catalog)])
    /\ UNCHANGED <<stripeCalls, dispatched, serverUp>>

(***************************************************************************)
(* Backend: POST /api/create-checkout-session                              *)
(***************************************************************************)
\* variant: only a missing `items` is rejected
noItems_missingOnly(items) == items.kind \in {"undefined", "null"}

\* !items || items.length === 0
noItems(items) == items.kind \in {"undefined", "null"} \/ Len(items.elems) = 0

\* variant: the unit amount is the line's total
lineItems_lineTotal(items) ==
    [i \in 1..Len(items) |->
        [price_data |-> [currency |-> "aud",
                         product_data |-> [name |-> items[i].name],
                         unit_amount |-> items[i].price * items[i].quantity],
         quantity |-> items[i].quantity]]

\* items.map(item => ({ price_data: {...}, quantity: item.quantity }))
lineItems(items) ==
    [i \in 1..Len(items) |->
        [price_data |-> [currency |-> "aud",
                         product_data |-> [name |-> items[i].name],
                         unit_amount |-> items[i].price],
         quantity |-> items[i].quantity]]

\* the argument of stripe.checkout.sessions.create
sessionParams(items) ==
    [payment_method_types |-> <<"card">>,
     line_items |-> lineItems(items),
     mode |-> "payment",
     success_url |-> <<"FRONTEND_URL", "/success?session_id={CHECKOUT_SESSION_ID}">>,
     cancel_url |-> <<"FRONTEND_URL", "/cancel">>]

\* res.json({ id: session.id })
onSessionCreated(sessionId) ==
    [responded |-> TRUE, status |-> 200, body |-> SessionJson(sessionId), up |-> TRUE]

\* variant: no catch; the rejection leaves the handler and ends the process
onSessionError_uncaught(message) ==
    [responded |-> FALSE, status |-> 0, body |-> NoBody, up |-> FALSE]

\* the catch block: res.status(500).json({ error: error.message })
onSessionError(message) ==
    [responded |-> TRUE, status |-> 500, body |-> ErrorJson(message), up |-> TRUE]

\* the handler up to its await: validation, then the call to Stripe
CreateCheckoutSession(items) ==
    LET r == Len(reqs) + 1
        req == [NewRequest("POST /api/create-checkout-session") EXCEPT
                   !.items = items,
                   !.bodySeen = BodySeen("POST /api/create-checkout-session",
                                         "application/json")]
    IN  /\ serverUp
        /\ Len(reqs) < MaxRequests
        /\ IF noItems(items)
           THEN /\ reqs' = Append(reqs, [req EXCEPT !.status = 400,
                                             !.body = ErrorJson("No items provided")])
                /\ UNCHANGED stripeCalls
           ELSE /\ reqs' = Append(reqs, [req EXCEPT !.pc = "awaiting"])
                /\ stripeCalls' = Append(stripeCalls,
                                   [req |-> r, params |-> sessionParams(items.elems)])
        /\ UNCHANGED <<dispatched, serverUp>>

\* the handler after its await
Settle(r, outcome, result) ==
    /\ serverUp
    /\ r \in 1..Len(reqs)
    /\ reqs[r].pc = "awaiting"
    /\ reqs' = [reqs EXCEPT ![r] =
                  [@ EXCEPT !.pc = IF result.responded THEN "done" ELSE "aborted",
                            !.status = result.status,
                            !.body = result.body,
                            !.outcome = outcome]]
    /\ serverUp' = result.up
    /\ UNCHANGED <<stripeCalls, dispatched, cartVars, allUiVars>>

StripeResolves ==
    \E r \in 1..Len(reqs), sid \in SessionIds :
        Settle(r, Resolved(sid), onSessionCreated(sid))

StripeRejects ==
    \E r \in 1..Len(reqs), m \in UpstreamErrors :
        Settle(r, Rejected(m), onSessionError(m))

(***************************************************************************)
(* Client: App                                                             *)
(***************************************************************************)
OnPage == page = "app"

\* the mount effect: fetch(`${REACT_APP_BACKEND_URL}/api/products`)
FetchProducts ==
    /\ OnPage
    /\ fetchProducts.pc = "idle"
    /\ \/ /\ GetProducts
          /\ fetchProducts' = [pc |-> "pending", req |-> Len(reqs) + 1]
       \/ /\ fetchProducts' = [pc |-> "pending", req |-> 0]
          /\ UNCHANGED serverVars
    /\ UNCHANGED <<cartVars, products, showCheckout, pays, alerts, stripeJs, page, clicks>>

\* fetchProducts after its awaits: setProducts(data), or the logged error
FetchProductsSettles ==
    /\ OnPage
    /\ fetchProducts.pc = "pending"
    /\ IF fetchProducts.req # 0 /\ reqs[fetchProducts.req].status = 200
       THEN products' = reqs[fetchProducts.req].body.products
       ELSE UNCHANGED products
    /\ fetchProducts' = [fetchProducts EXCEPT !.pc = "done"]
    /\ UNCHANGED <<cartVars, serverVars, showCheckout, pays, alerts, stripeJs, page, clicks>>

\* one more button pressed
Click == clicks < MaxClicks /\ clicks' = clicks + 1

\* the Add to Cart button of a product card (product listing view)
ClickAddToCart ==
    \E i \in 1..Len(products) :
        /\ OnPage
        /\ ~showCheckout
        /\ Add(products[i])
        /\ Click

\* the controls of a cart line (checkout view, cart not empty)
ClickMinus ==
    \E i \in 1..Len(cart) :
        /\ OnPage
        /\ showCheckout
        /\ SetQuantity(cart[i].id, cart[i].quantity - 1)
        /\ Click

ClickPlus ==
    \E i \in 1..Len(cart) :
        /\ OnPage
        /\ showCheckout
        /\ cart[i].quantity < MaxQuantity
        /\ SetQuantity(cart[i].id, cart[i].quantity + 1)
        /\ Click

ClickRemove ==
    \E i \in 1..Len(cart) :
        /\ OnPage
        /\ showCheckout
        /\ Remove(cart[i].id)
        /\ Click

Alert(kind, reason) == [kind |-> kind, reason |-> reason]

\* variant: the empty-cart test is left out
handleProceedToCheckout_noGuard ==
    /\ showCheckout' = TRUE
    /\ UNCHANGED alerts
    /\ UNCHANGED <<cartVars, serverVars, products, fetchProducts, pays, stripeJs, page>>

handleProceedToCheckout ==
    /\ IF Len(cart) = 0
       THEN /\ alerts' = Append(alerts, Alert("empty-cart", ""))
            /\ UNCHANGED showCheckout
       ELSE /\ showCheckout' = TRUE
            /\ UNCHANGED alerts
    /\ UNCHANGED <<cartVars, serverVars, products, fetchProducts, pays, stripeJs, page>>

handleBackToShopping ==
    /\ showCheckout' = FALSE
    /\ UNCHANGED <<cartVars, serverVars, products, fetchProducts, pays, alerts,
                   stripeJs, page>>

\* the Proceed to Checkout button: rendered in Browsing, disabled on an empty cart
ClickProceedToCheckout ==
    /\ OnPage
    /\ ~showCheckout
    /\ Len(cart) # 0
    /\ handleProceedToCheckout
    /\ Click

\* the Back to Shopping button: rendered in Reviewing
ClickBackToShopping ==
    /\ OnPage
    /\ showCheckout
    /\ handleBackToShopping
    /\ Click

\* cart.map(item => ({ id, name, price, quantity }))
payItems(c) ==
    [i \in 1..Len(c) |->
        [id |-> c[i].id, name |-> c[i].name, price |-> c[i].price,
         quantity |-> c[i].quantity]]

\* handleStripeCheckoutRedirect up to its first await: the request is sent with
\* the cart of the current render; it reaches the backend or fails on the way
handleStripeCheckoutRedirect ==
    /\ \/ /\ CreateCheckoutSession(Arr(payItems(cart)))
          /\ pays' = Append(pays, [items |-> payItems(cart), req |-> Len(reqs) + 1,
                                   pc |-> "fetch", sessionId |-> ""])
       \/ /\ pays' = Append(pays, [items |-> payItems(cart), req |-> 0,
                                   pc |-> "fetch", sessionId |-> ""])
          /\ UNCHANGED serverVars
    /\ UNCHANGED <<cartVars, products, fetchProducts, showCheckout, alerts, stripeJs, page>>

\* variant: the button is rendered on an empty cart as well
ClickPay_always ==
    /\ OnPage
    /\ showCheckout
    /\ handleStripeCheckoutRedirect
    /\ Click

\* the Pay with Stripe button: rendered in Reviewing when the cart is not empty
ClickPay ==
    /\ OnPage
    /\ showCheckout
    /\ Len(cart) # 0
    /\ handleStripeCheckoutRedirect
    /\ Click

\* variant: the catch block's alert does not include error.message
PayFetchSettles_genericAlert ==
    \E k \in 1..Len(pays) :
        LET pay == pays[k] IN
        /\ OnPage
        /\ pay.pc = "fetch"
        /\ pay.req # 0 => reqs[pay.req].pc = "done"
        /\ IF pay.req = 0 \/ reqs[pay.req].status \notin 200..299
           THEN /\ alerts' = Append(alerts, Alert("could-not-initiate", ""))
                /\ pays' = [pays EXCEPT ![k].pc = "failed"]
           ELSE /\ pays' = [pays EXCEPT ![k].pc = "stripe",
                                        ![k].sessionId = reqs[pay.req].body.id]
                /\ UNCHANGED alerts
        /\ UNCHANGED <<cartVars, serverVars, products, fetchProducts, showCheckout,
                       stripeJs, page, clicks>>

\* variant: the session id is read from a member the response does not have
PayFetchSettles_wrongMember ==
    \E k \in 1..Len(pays) :
        LET pay == pays[k] IN
        /\ OnPage
        /\ pay.pc = "fetch"
        /\ pay.req # 0 => reqs[pay.req].pc = "done"
        /\ IF pay.req = 0 \/ reqs[pay.req].status \notin 200..299
           THEN /\ alerts' = Append(alerts,
                                Alert("could-not-initiate",
                                      IF pay.req = 0 THEN "Failed to fetch"
                                      ELSE reqs[pay.req].body.error))
                /\ pays' = [pays EXCEPT ![k].pc = "failed"]
           ELSE /\ pays' = [pays EXCEPT ![k].pc = "stripe", ![k].sessionId = ""]
                /\ UNCHANGED alerts
        /\ UNCHANGED <<cartVars, serverVars, products, fetchProducts, showCheckout,
                       stripeJs, page, clicks>>

\* handleStripeCheckoutRedirect when fetch settles: a thrown error goes to the
\* catch block's alert, a 2xx response goes on to `await stripePromise`
PayFetchSettles ==
    \E k \in 1..Len(pays) :
        LET pay == pays[k] IN
        /\ OnPage
        /\ pay.pc = "fetch"
        /\ pay.req # 0 => reqs[pay.req].pc = "done"
        /\ IF pay.req = 0
           THEN /\ alerts' = Append(alerts, Alert("could-not-initiate", "Failed to fetch"))
                /\ pays' = [pays EXCEPT ![k].pc = "failed"]
           ELSE IF reqs[pay.req].status \notin 200..299
           THEN /\ alerts' = Append(alerts,
                                Alert("could-not-initiate",
                                      IF reqs[pay.req].body.error # ""
                                      THEN reqs[pay.req].body.error
                                      ELSE "HTTP error! status"))
                /\ pays' = [pays EXCEPT ![k].pc = "failed"]
           ELSE /\ pays' = [pays EXCEPT ![k].pc = "stripe",
                                        ![k].sessionId = reqs[pay.req].body.id]
                /\ UNCHANGED alerts
        /\ UNCHANGED <<cartVars, serverVars, products, fetchProducts, showCheckout,
                       stripeJs, page, clicks>>

\* loadStripe(...) settles: Stripe.js loaded, or its script could not be loaded
StripeJsSettles ==
    /\ stripeJs = "pending"
    /\ stripeJs' \in {"loaded", "failed"}
    /\ UNCHANGED <<cartVars, serverVars, products, fetchProducts, showCheckout,
                   pays, alerts, page, clicks>>

\* handleStripeCheckoutRedirect after `await stripePromise`:
\* stripe.redirectToCheckout({ sessionId }), whose result is not looked at
\* (the browser navigates, or the call fails and nothing is shown), or the
\* catch block's alert when stripePromise rejected
PayStripeSettles ==
    \E k \in 1..Len(pays) :
        /\ OnPage
        /\ pays[k].pc = "stripe"
        /\ stripeJs # "pending"
        /\ IF stripeJs = "loaded"
           THEN /\ \/ /\ page' = pays[k].sessionId
                      /\ pays' = [pays EXCEPT ![k].pc = "redirected"]
                   \/ /\ page' = page
                      /\ pays' = [pays EXCEPT ![k].pc = "redirect-failed"]
                /\ UNCHANGED alerts
           ELSE /\ alerts' = Append(alerts,
                                Alert("could-not-initiate", "Failed to load Stripe.js"))
                /\ pays' = [pays EXCEPT ![k].pc = "failed"]
                /\ UNCHANGED page
        /\ UNCHANGED <<cartVars, serverVars, products, fetchProducts, showCheckout,
                       stripeJs, clicks>>

(***************************************************************************)
(* Specifications                                                          *)
(***************************************************************************)
InitCart ==
    /\ cart = <<>>
    /\ lastCall = [op |-> "none", product |-> NoProduct, id |-> "", n |-> 0]
    /\ prevCart = <<>>

InitServer ==
    /\ reqs = <<>>
    /\ stripeCalls = <<>>
    /\ dispatched = <<>>
    /\ serverUp = TRUE

InitUi ==
    /\ products = <<>>
    /\ fetchProducts = [pc |-> "idle", req |-> 0]
    /\ showCheckout = FALSE
    /\ pays = <<>>
    /\ alerts = <<>>
    /\ stripeJs = "pending"
    /\ page = "app"
    /\ clicks = 0

Init == InitCart /\ InitServer /\ InitUi

ApiAdd == \E p \in ProductArgs : Add(p) /\ UNCHANGED clicks

ApiRemove == \E id \in ProductIdArgs : Remove(id) /\ UNCHANGED clicks

ApiSetQuantity ==
    \E id \in ProductIdArgs, n \in QuantityArgs : SetQuantity(id, n) /\ UNCHANGED clicks

NextCart == ApiAdd \/ ApiRemove \/ ApiSetQuantity

SpecCart == Init /\ [][NextCart]_vars

\* requests any HTTP client can send to the backend
HttpPostWebhook == \E hook \in WebhookArgs : PostWebhook(hook)

HttpPostCreateCheckoutSession ==
    \E items \in ItemsArgs :
        CreateCheckoutSession(items) /\ UNCHANGED <<cartVars, allUiVars>>

HttpGetProducts == GetProducts /\ UNCHANGED <<cartVars, allUiVars>>

NextServer ==
    \/ HttpPostWebhook
    \/ HttpGetProducts
    \/ HttpPostCreateCheckoutSession
    \/ StripeResolves
    \/ StripeRejects

SpecServer == Init /\ [][NextServer]_vars

\* the browser session: the user's clicks, the client's continuations and the
\* backend's handling of the client's requests
NextApp ==
    \/ FetchProducts
    \/ FetchProductsSettles
    \/ ClickAddToCart
    \/ ClickMinus
    \/ ClickPlus
    \/ ClickRemove
    \/ ClickProceedToCheckout
    \/ ClickBackToShopping
    \/ ClickPay
    \/ PayFetchSettles
    \/ StripeJsSettles
    \/ PayStripeSettles
    \/ StripeResolves
    \/ StripeRejects

SpecApp == Init /\ [][NextApp]_vars

\* the checkout flow as a state machine: its two transitions invoked in the
\* state they start from, on whatever cart the cart functions have produced
FlowProceed ==
    /\ ~showCheckout
    /\ handleProceedToCheckout
    /\ Click

FlowBack ==
    /\ showCheckout
    /\ handleBackToShopping
    /\ Click

NextFlow == ApiAdd \/ ApiRemove \/ ApiSetQuantity \/ FlowProceed \/ FlowBack

SpecFlow == Init /\ [][NextFlow]_vars

(***************************************************************************)
(* Properties of the Cart State Manager                                    *)
(***************************************************************************)
HasId(c, id) == \E i \in 1..Len(c) : c[i].id = id

IndexOf(c, id) == CHOOSE i \in 1..Len(c) : c[i].id = id

\* C1: after any sequence of add / remove / setQuantity calls from the empty
\* cart, no two items of the cart carry the same product id.
C1_UniqueIds ==
    \A i, j \in 1..Len(cart) : i # j => cart[i].id # cart[j].id

\* an add of a product object whose id is already in a two-item cart
C1_Witness ==
    /\ lastCall.op = "add"
    /\ lastCall.product = StaleProduct
    /\ HasId(prevCart, "product_1")
    /\ Len(cart) = 2

\* the sum of price * quantity over the items at the indices S
RECURSIVE SumOver(_, _)
SumOver(c, S) ==
    IF S = {} THEN 0
    ELSE LET i == CHOOSE k \in S : TRUE
         IN  c[i].price * c[i].quantity + SumOver(c, S \ {i})

\* C2: in every reachable cart the total in minor units is the sum of
\* price * quantity over the items (0 for the empty cart), and the displayed
\* string is that amount in dollars with two decimals.
C2_TotalIsSum ==
    /\ totalCents(cart) = SumOver(cart, DOMAIN cart)
    /\ cart = <<>> => totalCents(cart) = 0
    /\ getTotalCartPrice(cart).dollars * 100 + getTotalCartPrice(cart).cc
          = SumOver(cart, DOMAIN cart)
    /\ getTotalCartPrice(cart).cc \in 0..99

\* two items, one of them with a quantity above 1
C2_Witness ==
    /\ Len(cart) = 2
    /\ cart[1].quantity = 1
    /\ cart[2].quantity = 3
    /\ totalCents(cart) = 1500 + 3 * 2500

\* the effect the claim gives add(product) on the cart `before`
AddPost(before, p, after) ==
    IF HasId(before, p.id)
    THEN /\ Len(after) = Len(before)
         /\ \A i \in 1..Len(before) :
               after[i] = IF before[i].id = p.id
                          THEN [before[i] EXCEPT !.quantity = before[i].quantity + 1]
                          ELSE before[i]
    ELSE /\ Len(after) = Len(before) + 1
         /\ \A i \in 1..Len(before) : after[i] = before[i]
         /\ after[Len(after)] =
               [id |-> p.id, name |-> p.name, price |-> p.price,
                imageUrl |-> p.imageUrl, quantity |-> 1]

C3_AddEffect == lastCall.op = "add" => AddPost(prevCart, lastCall.product, cart)

\* two adds of the same product in a row, the first on a cart without it
C3_AddTwice ==
    ( /\ lastCall.op = "add"
      /\ ~HasId(prevCart, lastCall.id)
      /\ lastCall'.op = "add"
      /\ lastCall'.product = lastCall.product )
    => /\ Cardinality({i \in 1..Len(cart') : cart'[i].id = lastCall.id}) = 1
       /\ cart'[IndexOf(cart', lastCall.id)].quantity = 2
       /\ Len(cart') = Len(cart)

\* C3: add(product) increments exactly the present item's quantity by 1 and
\* keeps the item count, or appends one new item of quantity 1 when the id is
\* absent; add(p) twice on a cart without p gives one item for p, quantity 2.
C3_Add == []C3_AddEffect /\ [][C3_AddTwice]_vars

\* an add that incremented an item in a two-item cart, given another object
\* with the same id
C3_Witness ==
    /\ lastCall.op = "add"
    /\ lastCall.product = StaleProduct
    /\ Len(prevCart) = 2
    /\ prevCart[2].id = "product_1"
    /\ prevCart[2].name = "Premium Coffee Beans"
    /\ cart[2].quantity = 2

\* C4: setQuantity(productId, n) with n <= 0 gives the cart remove(productId)
\* gives; with n > 0 the item with that id gets quantity n, every other item
\* is unchanged and no item is added.
C4_SetQuantity ==
    lastCall.op = "setQuantity" =>
        IF lastCall.n <= 0
        THEN cart = removeFromCart(prevCart, lastCall.id)
        ELSE /\ Len(cart) = Len(prevCart)
             /\ \A i \in 1..Len(prevCart) :
                   cart[i] = IF prevCart[i].id = lastCall.id
                             THEN [prevCart[i] EXCEPT !.quantity = lastCall.n]
                             ELSE prevCart[i]

\* setQuantity(id, 0) on a two-item cart holding id
C4_Witness ==
    /\ lastCall.op = "setQuantity"
    /\ lastCall.n = 0
    /\ Len(prevCart) = 2
    /\ HasId(prevCart, lastCall.id)
    /\ Len(cart) = 1

\* `c` without its k-th element
WithoutIndex(c, k) ==
    [i \in 1..(Len(c) - 1) |-> IF i < k THEN c[i] ELSE c[i + 1]]

\* C5: remove(productId) deletes the item with that id and leaves every other
\* item, and their order, as it was; it leaves the cart as it was when no item
\* has that id.
C5_Remove ==
    lastCall.op = "remove" =>
        IF HasId(prevCart, lastCall.id)
        THEN cart = WithoutIndex(prevCart, IndexOf(prevCart, lastCall.id))
        ELSE cart = prevCart

\* the first of two items removed
C5_Witness ==
    /\ lastCall.op = "remove"
    /\ Len(prevCart) = 2
    /\ prevCart[1].id = lastCall.id
    /\ cart = <<prevCart[2]>>

(***************************************************************************)
(* Properties of the Checkout Session Creator                              *)
(***************************************************************************)
IsCheckout(r) == reqs[r].route = "POST /api/create-checkout-session"

\* the calls to Stripe made for request r
CallsFor(r) == {k \in 1..Len(stripeCalls) : stripeCalls[k].req = r}

\* C7: a create-checkout-session request whose items are [] or missing
\* (null / undefined) is answered 400 with an error message, and no call to
\* Stripe's session-create is made for it.
C7_NoItemsRejected ==
    \A r \in 1..Len(reqs) :
        ( /\ IsCheckout(r)
          /\ \/ reqs[r].items \in {Undefined, Null}
             \/ reqs[r].items = Arr(<<>>) )
        => /\ reqs[r].pc = "done"
           /\ reqs[r].status = 400
           /\ reqs[r].body.kind = "error"
           /\ reqs[r].body.error # ""
           /\ CallsFor(r) = {}

\* createSession([]) and createSession(null) both answered, next to a request
\* that did reach Stripe
C7_Witness ==
    /\ Len(reqs) = 3
    /\ reqs[1].items = Arr(<<>>) /\ IsCheckout(1) /\ reqs[1].status = 400
    /\ reqs[2].items = Null /\ IsCheckout(2) /\ reqs[2].status = 400
    /\ IsCheckout(3) /\ CallsFor(3) # {}

\* C8: for a non-empty list of items exactly one call to Stripe is made, its
\* line items match the items one-to-one and in order (unit amount = price,
\* quantity = quantity, name = name); when the call succeeds the response is
\* 200 with the session id Stripe returned; the backend's state is untouched.
C8_OneCallPassThrough ==
    \A r \in 1..Len(reqs) :
        ( /\ IsCheckout(r)
          /\ reqs[r].items.kind = "array"
          /\ Len(reqs[r].items.elems) > 0 )
        => LET items == reqs[r].items.elems IN
           /\ Cardinality(CallsFor(r)) = 1
           /\ \A k \in CallsFor(r) :
                LET li == stripeCalls[k].params.line_items IN
                /\ Len(li) = Len(items)
                /\ \A i \in 1..Len(items) :
                     /\ li[i].price_data.unit_amount = items[i].price
                     /\ li[i].quantity = items[i].quantity
                     /\ li[i].price_data.product_data.name = items[i].name
           /\ (reqs[r].outcome.settled /\ reqs[r].outcome.ok)
                => /\ reqs[r].pc = "done"
                   /\ reqs[r].status = 200
                   /\ reqs[r].body = SessionJson(reqs[r].outcome.id)
           /\ serverUp

\* the spec's example request, answered with the id Stripe gave, after a
\* two-line request that is still awaiting Stripe
C8_Witness ==
    /\ Len(reqs) = 2
    /\ reqs[1].items = Arr(<<MugLine, CoffeeLine>>) /\ reqs[1].pc = "awaiting"
    /\ reqs[2].items = Arr(<<CoffeeLine>>)
    /\ reqs[2].outcome = Resolved("cs_test_b")
    /\ reqs[2].body.id = "cs_test_b"
    /\ \E k \in CallsFor(2) :
         /\ stripeCalls[k].params.line_items[1].price_data.unit_amount = 1500
         /\ stripeCalls[k].params.line_items[1].quantity = 2

\* C9: when Stripe's session-create fails the request is answered 500 with
\* Stripe's error message (never 200 with a session id), the backend stays up,
\* and every later request is answered as it would be without the failure.
C9_UpstreamFailure ==
    \A r \in 1..Len(reqs) :
        ( /\ IsCheckout(r)
          /\ reqs[r].outcome.settled
          /\ ~reqs[r].outcome.ok )
        => /\ reqs[r].pc = "done"
           /\ reqs[r].status = 500
           /\ reqs[r].body = ErrorJson(reqs[r].outcome.message)
           /\ serverUp
           /\ \A q \in 1..Len(reqs) :
                (IsCheckout(q) /\ reqs[q].outcome.settled /\ reqs[q].outcome.ok)
                => /\ reqs[q].status = 200
                   /\ reqs[q].body = SessionJson(reqs[q].outcome.id)
           /\ \A q \in (r + 1)..Len(reqs) :
                /\ reqs[q].pc \in {"done", "awaiting"}
                /\ (IsCheckout(q) /\ noItems(reqs[q].items)) => reqs[q].status = 400
                /\ reqs[q].route = "GET /api/products" => reqs[q].status = 200

\* a failed session creation, then a valid request received and answered 200
C9_Witness ==
    /\ Len(reqs) >= 2
    /\ reqs[1].outcome = Rejected("Invalid API Key provided")
    /\ reqs[1].status = 500
    /\ Len(stripeCalls) = 2
    /\ stripeCalls[2].req = 2
    /\ reqs[2].outcome.ok
    /\ reqs[2].status = 200

(***************************************************************************)
(* Properties of the Webhook Verifier & Dispatcher                         *)
(***************************************************************************)
IsWebhook(r) == reqs[r].route = "POST /webhook"

\* the header is one the provider made for exactly these bytes with the
\* shared secret, recently
SignatureValid(hook) ==
    /\ hook.contentType = "application/json"
    /\ hook.sig.present
    /\ hook.sig.secret = WebhookSecret
    /\ hook.sig.signed = hook.payload
    /\ hook.sig.fresh

DispatchesFor(r) == {k \in 1..Len(dispatched) : dispatched[k].req = r}

\* C10: a webhook request whose signature verification fails is answered 400,
\* no branch of the switch (recognized or default) runs for it, and it is
\* never acknowledged with 200.
C10_BadSignatureRejected ==
    \A r \in 1..Len(reqs) :
        (IsWebhook(r) /\ ~SignatureValid(reqs[r].hook))
        => /\ reqs[r].status = 400
           /\ reqs[r].body.kind = "text"
           /\ DispatchesFor(r) = {}

\* a header computed with another secret, and a body altered after signing,
\* both rejected, next to a delivery that was dispatched
C10_Witness ==
    /\ Len(reqs) = 3
    /\ IsWebhook(1) /\ reqs[1].hook.sig.secret = OtherSecret /\ reqs[1].status = 400
    /\ IsWebhook(2) /\ reqs[2].hook.sig.signed # reqs[2].hook.payload
    /\ reqs[2].hook.sig.present /\ reqs[2].status = 400
    /\ IsWebhook(3) /\ DispatchesFor(3) # {}

IsValidDelivery(r) == IsWebhook(r) /\ SignatureValid(reqs[r].hook)

\* C11: for each webhook request with a valid signature and type
\* "checkout.session.completed" the handler runs that branch exactly once and
\* no other branch, then acknowledges with 200 {received: true}; the dispatch
\* comes after the verification and before the acknowledgment.
C11_CompletedDispatchedOnce ==
    \A r \in 1..Len(reqs) :
        (IsValidDelivery(r) /\ reqs[r].hook.payload.type = "checkout.session.completed")
        => /\ Cardinality(DispatchesFor(r)) = 1
           /\ \A k \in DispatchesFor(r) :
                dispatched[k].branch = "checkout.session.completed"
           /\ reqs[r].status = 200
           /\ reqs[r].body = ReceivedJson
           /\ reqs[r].trace = <<"verify", "dispatch", "respond">>

\* a completed-checkout delivery handled after a rejected one
C11_Witness ==
    /\ Len(reqs) = 2
    /\ IsWebhook(1) /\ reqs[1].status = 400
    /\ IsValidDelivery(2)
    /\ reqs[2].hook.payload.type = "checkout.session.completed"
    /\ Len(dispatched) = 1
    /\ dispatched[1] = [req |-> 2, branch |-> "checkout.session.completed"]

RecognizedTypes == {"checkout.session.completed", "payment_intent.succeeded"}

\* C12: a webhook request with a valid signature and an event type other than
\* the recognized ones is acknowledged with 200; it is never rejected.
C12_UnknownTypeAcknowledged ==
    \A r \in 1..Len(reqs) :
        (IsValidDelivery(r) /\ reqs[r].hook.payload.type \notin RecognizedTypes)
        => /\ reqs[r].status = 200
           /\ reqs[r].body = ReceivedJson
           /\ \A k \in DispatchesFor(r) : dispatched[k].branch = "default"

\* two deliveries of different unrecognized types, both acknowledged
C12_Witness ==
    /\ Len(reqs) = 2
    /\ IsValidDelivery(1) /\ reqs[1].hook.payload.type = "invoice.paid"
    /\ IsValidDelivery(2) /\ reqs[2].hook.payload.type = "customer.created"
    /\ reqs[1].status = 200 /\ reqs[2].status = 200
    /\ Len(dispatched) = 2

(***************************************************************************)
(* Properties of the cart as the user interface drives it                  *)
(***************************************************************************)
\* C6: in every cart state the buttons can produce (Add to Cart, -, +,
\* Remove) each item's quantity is an integer >= 1: an item whose quantity
\* would reach zero is removed instead of being kept with quantity 0.
C6_QuantityPositive ==
    \A i \in 1..Len(cart) : cart[i].quantity \in Nat /\ cart[i].quantity >= 1

\* the - button pressed on an item of quantity 1 in the checkout view, with
\* another item left in the cart
C6_Witness ==
    /\ showCheckout
    /\ clicks > 0
    /\ lastCall.op = "setQuantity"
    /\ lastCall.n = 0
    /\ HasId(prevCart, lastCall.id)
    /\ Len(prevCart) = 2
    /\ Len(cart) = 1
    /\ ~HasId(cart, lastCall.id)

(***************************************************************************)
(* Properties of the Checkout Redirect Flow                                *)
(***************************************************************************)
EmptyCartWarning == Alert("empty-cart", "")

C13_ProceedStep ==
    FlowProceed =>
        IF Len(cart) # 0
        THEN showCheckout' /\ cart' = cart /\ alerts' = alerts
        ELSE /\ ~showCheckout'
             /\ cart' = cart
             /\ alerts' = Append(alerts, EmptyCartWarning)

C13_BackStep == FlowBack => (~showCheckout' /\ cart' = cart)

C13_OnlyThese ==
    /\ (~showCheckout /\ showCheckout') => (FlowProceed /\ Len(cart) # 0)
    /\ (showCheckout /\ ~showCheckout') => FlowBack

\* C13: the flow starts in Browsing; proceedToCheckout moves Browsing to
\* Reviewing only when the cart is non-empty, and with an empty cart it signals
\* a warning and leaves the state Browsing and the cart unchanged;
\* backToShopping moves Reviewing to Browsing without changing the cart.
C13_Flow ==
    /\ ~showCheckout
    /\ [][C13_ProceedStep /\ C13_BackStep /\ C13_OnlyThese]_vars

\* a warning on the empty cart, later Reviewing with two items, then back
C13_Witness ==
    /\ alerts = <<EmptyCartWarning>>
    /\ ~showCheckout
    /\ Len(cart) = 2
    /\ clicks = 3

\* pay k's request to the backend failed and the catch block is handling it
PayFailureHandled(k) ==
    /\ k \in 1..Len(pays)
    /\ pays[k].pc = "fetch"
    /\ pays'[k].pc = "failed"

\* the reason of pay k's failure: the backend's error message, or the
\* browser's for a request that did not get through
FailureReason(k) ==
    IF pays[k].req = 0 THEN "Failed to fetch"
    ELSE IF reqs[pays[k].req].status = 500
         THEN reqs[pays[k].req].outcome.message
         ELSE reqs[pays[k].req].body.error

SessionCreated(k) == pays[k].req # 0 /\ reqs[pays[k].req].status = 200

\* handleStripeCheckoutRedirect has returned for pay k
PayFinished(k) == pays[k].pc \in {"failed", "redirected", "redirect-failed"}

\* C15 as stated: a pay whose session creation succeeded always ends with the
\* browser on the provider's page for the session id the backend returned.
C15_AlwaysRedirected ==
    \A k \in 1..Len(pays) :
        (SessionCreated(k) /\ PayFinished(k))
        => page = reqs[pays[k].req].body.id

\* C15, amended: when session creation succeeded and Stripe.js has loaded,
\* redirectToCheckout is called with exactly the session id the backend
\* returned and the browser leaves the application only for that session; when
\* Stripe.js could not be loaded an error message is shown instead, and when
\* redirectToCheckout itself fails the user stays in the application.
C15_RedirectCarriesSessionId ==
    /\ \A k \in 1..Len(pays) :
         /\ pays[k].pc \in {"redirected", "redirect-failed"}
              => /\ SessionCreated(k)
                 /\ stripeJs = "loaded"
                 /\ pays[k].sessionId = reqs[pays[k].req].outcome.id
                 /\ pays[k].sessionId \in SessionIds
         /\ (SessionCreated(k) /\ pays[k].pc = "failed")
              => /\ stripeJs = "failed"
                 /\ \E a \in 1..Len(alerts) : alerts[a].kind = "could-not-initiate"
         /\ pays[k].pc = "redirected" => page = pays[k].sessionId
    /\ page # "app"
         => \E k \in 1..Len(pays) :
              /\ pays[k].pc = "redirected"
              /\ SessionCreated(k)
              /\ page = reqs[pays[k].req].outcome.id

\* a first pay whose redirectToCheckout failed, a second one that left the
\* application for its own session
C15_Witness ==
    /\ Len(pays) = 2
    /\ pays[1].pc = "redirect-failed"
    /\ pays[2].pc = "redirected"
    /\ reqs[pays[1].req].outcome.id = "cs_test_a"
    /\ reqs[pays[2].req].outcome.id = "cs_test_b"
    /\ page = "cs_test_b"

(***************************************************************************)
(* Properties of the middleware order                                      *)
(***************************************************************************)
Routes == {"POST /webhook", "GET /api/products", "POST /api/create-checkout-session"}

\* C16: on /webhook the JSON body parser never runs before verification (the
\* route with its raw-body capture is registered ahead of express.json()):
\* verification is the handler's first step, it is done over the body as
\* received, and so a correctly signed JSON delivery verifies; every other
\* route is registered after express.json() and sees the parsed body.
C16_RawBodyForWebhookOnly ==
    /\ ~JsonParsedBefore("POST /webhook")
    /\ \A route \in Routes \ {"POST /webhook"} : JsonParsedBefore(route)
    /\ \A r \in 1..Len(reqs) :
         /\ (IsWebhook(r) /\ reqs[r].hook.contentType = "application/json")
              => /\ reqs[r].bodySeen = "raw"
                 /\ WebhookBody(reqs[r].hook) = [raw |-> TRUE, payload |-> reqs[r].hook.payload]
                 /\ reqs[r].trace[1] = "verify"
                 /\ SignatureValid(reqs[r].hook) => reqs[r].status = 200
         /\ IsWebhook(r) => reqs[r].bodySeen # "parsed"
         /\ IsCheckout(r) => reqs[r].bodySeen = "parsed"

\* a verified webhook delivery next to a checkout request read from parsed JSON
C16_Witness ==
    \E r, q \in 1..Len(reqs) :
        /\ IsWebhook(r) /\ reqs[r].bodySeen = "raw" /\ reqs[r].status = 200
        /\ IsCheckout(q) /\ reqs[q].bodySeen = "parsed" /\ reqs[q].status = 200

(***************************************************************************)
(* Properties of the Product Catalog                                       *)
(***************************************************************************)
IsProducts(r) == reqs[r].route = "GET /api/products"

\* C17: every GET /api/products is answered 200 with the same two products, in
\* the same order and with the same ids, names, prices and image references,
\* whatever requests were handled before it.
C17_SameProductsEveryCall ==
    /\ \A r \in 1..Len(reqs) :
         IsProducts(r)
         => /\ reqs[r].status = 200
            /\ reqs[r].body.kind = "products"
            /\ Len(reqs[r].body.products) = 2
            /\ reqs[r].body.products[1] =
                 [id |-> "product_1", name |-> "Premium Coffee Beans", price |-> 1500,
                  imageUrl |-> "/images/coffee.jpg"]
            /\ reqs[r].body.products[2] =
                 [id |-> "product_2", name |-> "Handcrafted Mug", price |-> 2500,
                  imageUrl |-> "/images/mug.jpg"]
    /\ \A r, q \in 1..Len(reqs) :
         (IsProducts(r) /\ IsProducts(q)) => reqs[r].body = reqs[q].body

\* the list is served, a session creation fails upstream, the list is served again
C17_Witness ==
    /\ Len(reqs) = 3
    /\ IsProducts(1)
    /\ IsCheckout(2) /\ reqs[2].status = 500
    /\ IsProducts(3)

(***************************************************************************)
(* Properties of the cart's order                                          *)
(***************************************************************************)
Ids(c) == [i \in 1..Len(c) |-> c[i].id]

\* the ids of c that also occur in d, in c's order
IdsAlsoIn(c, d) ==
    LET also(id) == \E j \in 1..Len(d) : d[j].id = id
    IN  SelectSeq(Ids(c), also)

\* C18: every call leaves the items that stay in the cart in the order they had:
\* incrementing an item or setting its quantity moves nothing, removing an item
\* does not reorder the others, and a product added while absent is placed last.
C18_InsertionOrderKept ==
    /\ IdsAlsoIn(cart, prevCart) = IdsAlsoIn(prevCart, cart)
    /\ \A i \in 1..Len(cart) : ~HasId(prevCart, cart[i].id) => i = Len(cart)
    /\ (lastCall.op = "add" /\ HasId(prevCart, lastCall.id)) => Ids(cart) = Ids(prevCart)
    /\ (lastCall.op = "add" /\ ~HasId(prevCart, lastCall.id))
         => Ids(cart) = Append(Ids(prevCart), lastCall.id)
    /\ (lastCall.op = "setQuantity" /\ lastCall.n > 0) => Ids(cart) = Ids(prevCart)
    /\ (lastCall.op = "remove" \/ (lastCall.op = "setQuantity" /\ lastCall.n <= 0))
         => Ids(cart) = IdsAlsoIn(prevCart, cart)

\* the first of two items incremented, the mug having been inserted before the
\* coffee
C18_Witness ==
    /\ lastCall.op = "add"
    /\ Ids(prevCart) = <<"product_2", "product_1">>
    /\ lastCall.id = "product_2"
    /\ Ids(cart) = <<"product_2", "product_1">>
    /\ cart[1].quantity = prevCart[1].quantity + 1

(***************************************************************************)
(* Properties of redelivered webhook events                                *)
(***************************************************************************)
\* the validly signed deliveries of event e so far
DeliveriesOf(e) == {r \in 1..Len(reqs) : IsValidDelivery(r) /\ reqs[r].hook.payload = e}

\* the branch runs made for deliveries of event e
RunsFor(e) == {k \in 1..Len(dispatched) : dispatched[k].req \in DeliveriesOf(e)}

\* C19: each validly signed delivery is acknowledged with 200 and dispatched to
\* its branch on its own, whatever was delivered before it: an event delivered
\* k times has had its branch run k times, in the order of the deliveries.
C19_EveryDeliveryDispatched ==
    /\ \A e \in {hook.payload : hook \in WebhookArgs} :
         /\ Cardinality(RunsFor(e)) = Cardinality(DeliveriesOf(e))
         /\ \A k \in RunsFor(e) : dispatched[k].branch = dispatchBranch(e.type)
         /\ \A r \in DeliveriesOf(e) :
              /\ reqs[r].status = 200
              /\ \E k \in RunsFor(e) : dispatched[k].req = r
    /\ \A j, k \in 1..Len(dispatched) : j < k => dispatched[j].req < dispatched[k].req

\* one signed event delivered three times over
C19_Witness ==
    /\ Len(reqs) = 3
    /\ \A r \in 1..3 : IsValidDelivery(r) /\ reqs[r].hook = reqs[1].hook /\ reqs[r].status = 200
    /\ Len(dispatched) = 3
    /\ \A k \in 1..3 : dispatched[k] = [req |-> k, branch |-> "checkout.session.completed"]

(***************************************************************************)
(* Properties of the pay action                                            *)
(***************************************************************************)
\* every create-checkout-session request was sent by a pay, carries that pay's
\* non-empty item list and was not answered 400; with an empty cart in
\* Reviewing there is no pay to invoke
C20_NoEmptyRequest ==
    /\ \A k \in 1..Len(pays) : Len(pays[k].items) > 0
    /\ \A r \in 1..Len(reqs) :
         IsCheckout(r)
         => /\ \E k \in 1..Len(pays) :
                 pays[k].req = r /\ reqs[r].items = Arr(pays[k].items)
            /\ reqs[r].status # 400
            /\ reqs[r].body # ErrorJson("No items provided")
    /\ (showCheckout /\ Len(cart) = 0) => ~ENABLED ClickPay

\* a pay is invoked in Reviewing on a non-empty cart and sends that cart's
\* items (id, name, price, quantity of each line, in the cart's order)
C20_PayStep ==
    Len(pays') > Len(pays)
    => /\ showCheckout
       /\ Len(cart) # 0
       /\ Len(pays') = Len(pays) + 1
       /\ pays'[Len(pays')].items = payItems(cart)
       /\ \A i \in 1..Len(cart) :
            /\ pays'[Len(pays')].items[i].id = cart[i].id
            /\ pays'[Len(pays')].items[i].quantity = cart[i].quantity
       /\ pays'[Len(pays')].req # 0
            => reqs'[pays'[Len(pays')].req].items = Arr(payItems(cart))

\* emptying the cart in Reviewing leaves the flow in Reviewing
C20_EmptyingStep ==
    (showCheckout /\ Len(cart) # 0 /\ Len(cart') = 0) => (showCheckout' /\ pays' = pays)

\* C20: pay can be invoked only in Reviewing with a non-empty cart (emptying the
\* cart in Reviewing keeps Reviewing and withdraws pay), so every
\* create-checkout-session request of the client carries the non-empty items of
\* the cart at the moment pay was invoked, and none is answered 400.
C20_PayOnlyWithItems ==
    /\ []C20_NoEmptyRequest
    /\ [][C20_PayStep /\ C20_EmptyingStep]_vars

\* Reviewing with a cart emptied after a pay that was answered 200, and clicks
\* to spare
C20_Witness ==
    /\ showCheckout
    /\ Len(cart) = 0
    /\ clicks < MaxClicks
    /\ OnPage
    /\ \E k \in 1..Len(pays) : pays[k].req # 0 /\ reqs[pays[k].req].status = 200

====
